---- MODULE Spec2Model ----
(***************************************************************************)
(* Booking workflow of the Hirafic backend (routes/booking.py) and the     *)
(* uniqueness validators of the profile form (forms/artisan.py).           *)
(*                                                                         *)
(* State: the User table, the Booking table, the wall clock, the mails     *)
(* handed to send_email, and the HTTP exchange in progress (the request    *)
(* the server is answering and the response it produced).  A handler runs  *)
(* as one step from an idle server; Deliver hands the response back and    *)
(* makes the server idle again.                                            *)
(*                                                                         *)
(* Text values that the code lower-cases (emails) are sequences of         *)
(* character codes, so that str.lower() is computed and not assumed.       *)
(* An optional value (a JSON key or a query parameter that may be absent)  *)
(* is a set with no or one element.                                        *)
(***************************************************************************)
EXTENDS Integers, Sequences, FiniteSets, TLC

\* Bounds of the model.
MaxBookings == 2
MaxTime == 1

VARIABLES users, booking_rows, now, outbox, req, resp

vars == <<users, booking_rows, now, outbox, req, resp>>

Only(s) == CHOOSE x \in s : TRUE

\* dict.get(key, default)
GetOr(opt, default) == IF opt = {} THEN default ELSE Only(opt)

----------------------------------------------------------------------------
\* str.lower() on a sequence of character codes: 'A'..'Z' (65..90) -> +32.
Lower(s) == [i \in DOMAIN s |-> IF s[i] \in 65..90 THEN s[i] + 32 ELSE s[i]]

\* One-letter addresses: "c", "d" (clients), "a" (artisan), "z" (nobody), and
\* the upper-case spellings "C", "D", "A".
Ec == <<99>>
Ed == <<100>>
Ea == <<97>>
Ez == <<122>>
EC == <<67>>
ED == <<68>>
EA == <<65>>

\* The identities a bearer token can carry: the three users and one id that
\* matches no row of the User table.
UserIds == 1..3
GhostId == 9
Identities == UserIds \cup {GhostId}

DefaultUsers ==
    [u \in UserIds |->
        CASE u = 1 -> [username |-> "u1", email |-> Ec, role |-> "Client"]
          [] u = 2 -> [username |-> "u2", email |-> Ed, role |-> "Client"]
          [] u = 3 -> [username |-> "u3", email |-> Ea, role |-> "Artisan"]]

\* Client and Artisan profile rows (one per user of that role).
Clients ==
    { [id |-> 11, user_id |-> 1, email |-> Ec],
      [id |-> 12, user_id |-> 2, email |-> Ed] }

Artisans ==
    { [id |-> 21, user_id |-> 3, email |-> Ea] }

\* User.query.filter_by(id=user_id).first()
current_user(identity) == IF identity \in DOMAIN users THEN {identity} ELSE {}

\* Client.query.filter_by(email=...).first(), Artisan.query.filter_by(...)
ClientByEmail(e) == {c \in Clients : c.email = e}
ArtisanByEmail(e) == {a \in Artisans : a.email = e}

\* Booking.query.filter_by(id=booking_id).first(); an absent booking_id
\* (None) matches no row.
BookingById(opt) ==
    {i \in 1..Len(booking_rows) : opt # {} /\ booking_rows[i].id = Only(opt)}

----------------------------------------------------------------------------
\* datetime.strptime(s, '%Y-%m-%dT%H:%M:%S.%fZ'): a text in that format
\* yields its instant, any other text (the default '' included) raises.
RawDates ==
    {[fmt |-> "iso", t |-> t] : t \in 0..MaxTime} \cup {[fmt |-> "other", t |-> 0]}

strptime_raises(d) == d.fmt # "iso"
strptime(d) == d.t

\* int(s): decimal text yields its value, any other text raises.
Digits(n) == [digits |-> TRUE, n |-> n]
NotDigits == [digits |-> FALSE, n |-> 0]

int_raises(a) == ~a.digits
int(a) == a.n

----------------------------------------------------------------------------
\* HTTP exchange.  A request carries the verb, the identity of the bearer
\* token, whether the body is a JSON object (json), the body's keys and the
\* query parameters; keys a verb does not use stay absent.
NoDate == [fmt |-> "other", t |-> 0]

NoReq ==
    [method |-> "NONE", identity |-> GhostId, json |-> FALSE,
     client_email |-> {}, artisan_email |-> {}, title |-> {}, details |-> {},
     completion_date |-> NoDate, booking_id |-> {}, action |-> {},
     page |-> {}, per_page |-> {}, username |-> "", email |-> <<>>]

\* jsonify({...}), code
Reply(code, msg) ==
    [code |-> code, msg |-> msg, bookings |-> <<>>, total_pages |-> 0,
     current_page |-> 0, errors |-> {}]

NoResp == Reply(0, "")

ClientEmailInputs == {{}, {EC}, {Ez}}
ArtisanEmailInputs == {{EA}, {Ez}}
ActionInputs == {"Pending", "whatever"}
BookingIdInputs == {{}} \cup {{i} : i \in 1..MaxBookings}
PageInputs == {{}, {NotDigits}, {Digits(0 - 1)}, {Digits(0)}, {Digits(2)}}
PerPageInputs == {{}, {NotDigits}, {Digits(0 - 1)}, {Digits(0)}, {Digits(1)}}

PostRequests ==
    {[NoReq EXCEPT !.method = "POST", !.identity = u] : u \in Identities}
    \cup
    {[NoReq EXCEPT !.method = "POST", !.identity = u, !.json = TRUE,
                   !.client_email = ce, !.artisan_email = ae,
                   !.title = {"roof"}, !.details = {"leak"},
                   !.completion_date = d] :
        u \in UserIds, ce \in ClientEmailInputs, ae \in ArtisanEmailInputs,
        d \in RawDates}

PutRequests ==
    {[NoReq EXCEPT !.method = "PUT", !.identity = u] : u \in Identities}
    \cup
    {[NoReq EXCEPT !.method = "PUT", !.identity = u, !.json = TRUE,
                   !.booking_id = b, !.action = {a}] :
        u \in UserIds, b \in BookingIdInputs, a \in ActionInputs}

OptionsRequests == {[NoReq EXCEPT !.method = "OPTIONS"]}

GetRequests ==
    {[NoReq EXCEPT !.method = "GET", !.identity = GhostId]}
    \cup
    {[NoReq EXCEPT !.method = "GET", !.identity = u, !.page = p, !.per_page = pp] :
        u \in UserIds, p \in PageInputs, pp \in PerPageInputs}

\* What a handler leaves behind: the tables, the clock, the mails, the reply.
Outcome(rows, mails, clock, r) ==
    [booking_rows |-> rows, outbox |-> mails, now |-> clock, resp |-> r]

Unchanged(r) == {Outcome(booking_rows, outbox, now, r)}

----------------------------------------------------------------------------
\* PUT /book_artisan (booking.py 58-72).  Every JSON body modelled carries an
\* action; booking_id may be absent.

\* booking.status = data.get('action'); db.session.commit()
UpdateAllRows(rows, i, action) ==
    [j \in DOMAIN rows |-> [rows[j] EXCEPT !.status = action]]

UpdateStatusValidated(rows, i, action) ==
    IF action \in {"Pending", "Accepted", "Declined"}
    THEN [rows EXCEPT ![i].status = action]
    ELSE rows

UpdateStatus(rows, i, action) == [rows EXCEPT ![i].status = action]

PutAllowedAny(role) == TRUE

PutAllowed(role) == role = "Artisan"

update_booking(r, uid) ==
    IF ~PutAllowed(users[uid].role)
    THEN Unchanged(Reply(403, "User is not an artisan"))
    ELSE IF ~r.json
    THEN Unchanged(Reply(400, "Invalid request"))
    ELSE LET booking == BookingById(r.booking_id) IN
         IF booking = {}
         THEN Unchanged(Reply(404, "Booking not found"))
         ELSE {Outcome(UpdateStatus(booking_rows, Only(booking), Only(r.action)),
                       outbox, now, Reply(200, "Booking updated successfully"))}

----------------------------------------------------------------------------
\* POST /book_artisan (booking.py 74-149)

PostAllowed(role) == role = "Client"

\* Booking(client_id=..., status="Pending", request_date=datetime.now(), ...)
NewBookingAccepted(id, client, artisan, title, details, completion_date, t2, t3) ==
    [id |-> id, client_id |-> client.id, artisan_id |-> artisan.id,
     title |-> title, status |-> "Accepted", request_date |-> t2,
     completion_date |-> completion_date, details |-> details, created_at |-> t3]

NewBooking(id, client, artisan, title, details, completion_date, t2, t3) ==
    [id |-> id, client_id |-> client.id, artisan_id |-> artisan.id,
     title |-> title, status |-> "Pending", request_date |-> t2,
     completion_date |-> completion_date, details |-> details, created_at |-> t3]

\* send_email(artisan.email, subject, body), called after the commit:
\* stored is the number of Booking rows committed when the mail goes out.
Mail(artisan, client, stored) ==
    [to |-> artisan.email, from_client |-> client.id, stored |-> stored]

\* Lines 95-102 in the other order: existence first, then the date.
ValidateExistenceFirst(client, artisan, completion_date, t1) ==
    IF client = {} \/ artisan = {}
    THEN Reply(404, "Client or Artisan not found")
    ELSE IF completion_date < t1
    THEN Reply(400, "Completion date cannot be in the past")
    ELSE NoResp

\* Lines 95-102: the past-date check, then the existence check; NoResp
\* when both pass.
Validate(client, artisan, completion_date, t1) ==
    IF completion_date < t1
    THEN Reply(400, "Completion date cannot be in the past")
    ELSE IF client = {} \/ artisan = {}
    THEN Reply(404, "Client or Artisan not found")
    ELSE NoResp

\* Lines 106-149: build the row (two further clock reads, t2 then t3), add
\* and commit it, send the mail, answer 201.  send_email returns normally.
CommitAndNotify(client, artisan, title, details, completion_date, t2, t3) ==
    LET rows == Append(booking_rows,
                       NewBooking(Len(booking_rows) + 1, client, artisan, title,
                                  details, completion_date, t2, t3))
    IN  Outcome(rows, Append(outbox, Mail(artisan, client, Len(rows))), t3,
                Reply(201, "Booking created and email sent successfully!"))

\* The first clock read (line 96) yields now; Tick covers the time that
\* passes before it.  A creation that would pass MaxBookings rows is not
\* taken.
create_booking(r, uid) ==
    IF ~PostAllowed(users[uid].role)
    THEN Unchanged(Reply(403, "User is not a client"))
    ELSE IF ~r.json \/ r.client_email = {} \/ r.artisan_email = {}
    THEN Unchanged(Reply(400, "Invalid request"))
    ELSE LET client_email == Lower(Only(r.client_email))
             artisan_email == Lower(Only(r.artisan_email))
             title == GetOr(r.title, "")
             details == GetOr(r.details, "")
             client == ClientByEmail(client_email)
             artisan == ArtisanByEmail(artisan_email)
         IN  IF strptime_raises(r.completion_date)
             THEN Unchanged(Reply(400, "Invalid request"))
             ELSE LET completion_date == strptime(r.completion_date)
                      failed == Validate(client, artisan, completion_date, now)
                  IN  IF failed # NoResp
                      THEN Unchanged(failed)
                      ELSE IF Len(booking_rows) >= MaxBookings
                      THEN {}
                      ELSE {CommitAndNotify(Only(client), Only(artisan), title,
                                            details, completion_date, t[1], t[2]) :
                            t \in {c \in (now..MaxTime) \X (now..MaxTime) : c[1] <= c[2]}}

\* book_artisan(): OPTIONS, then authentication, then PUT or POST.
book_artisan_outcomes(r) ==
    IF r.method = "OPTIONS"
    THEN Unchanged(Reply(200, "Preflight request"))
    ELSE LET user == current_user(r.identity) IN
         IF user = {}
         THEN Unchanged(Reply(401, "User not authenticated"))
         ELSE IF r.method = "PUT"
         THEN update_booking(r, Only(user))
         ELSE create_booking(r, Only(user))

----------------------------------------------------------------------------
\* GET /bookings (booking.py 156-212)

\* current_user.artisan.bookings / current_user.client.bookings, in id order
AllBookings(uid) == booking_rows

CallerBookings(uid) ==
    IF users[uid].role = "Artisan"
    THEN LET artisan == Only({a \in Artisans : a.user_id = uid})
             Mine(b) == b.artisan_id = artisan.id
         IN  SelectSeq(booking_rows, Mine)
    ELSE LET client == Only({c \in Clients : c.user_id = uid})
             Mine(b) == b.client_id = client.id
         IN  SelectSeq(booking_rows, Mine)

\* sorted(data, key=request_date, reverse=True): stable, so rows with equal
\* request_date keep their order.
RECURSIVE InsertDesc(_, _)
InsertDesc(x, s) ==
    IF s = <<>> THEN <<x>>
    ELSE IF Head(s).request_date >= x.request_date
    THEN <<Head(s)>> \o InsertDesc(x, Tail(s))
    ELSE <<x>> \o s

RECURSIVE sorted_bookings(_)
sorted_bookings(data) ==
    IF data = <<>> THEN <<>>
    ELSE InsertDesc(data[Len(data)], sorted_bookings(SubSeq(data, 1, Len(data) - 1)))

Min(a, b) == IF a <= b THEN a ELSE b
Max(a, b) == IF a >= b THEN a ELSE b

\* s[start:end] of Python: a negative index counts from the end, both are
\* clamped to 0..len(s).
PyIndex(i, n) == IF i < 0 THEN Max(n + i, 0) ELSE Min(i, n)

PySlice(s, start, end) ==
    LET lo == PyIndex(start, Len(s))
        hi == PyIndex(end, Len(s))
    IN  IF lo < hi THEN SubSeq(s, lo + 1, hi) ELSE <<>>

\* a // b of Python for b # 0: the floor of the quotient.
FloorDiv(a, b) == IF b > 0 THEN a \div b ELSE (0 - a) \div (0 - b)

Listing(items, total, page) ==
    [code |-> 200, msg |-> "", bookings |-> items, total_pages |-> total,
     current_page |-> page, errors |-> {}]

\* Lines 190-212: the try block.  booking.to_dict() keeps the row's fields;
\* per_page = 0 raises ZeroDivisionError at line 204.
paginate(r, mine) ==
    IF (r.page # {} /\ int_raises(Only(r.page)))
       \/ (r.per_page # {} /\ int_raises(Only(r.per_page)))
    THEN Reply(400, "Invalid request")
    ELSE LET page == IF r.page = {} THEN 1 ELSE int(Only(r.page))
             per_page == IF r.per_page = {} THEN 10 ELSE int(Only(r.per_page))
             start == (page - 1) * per_page
             end == start + per_page
         IN  IF per_page = 0
             THEN Reply(400, "Invalid request")
             ELSE Listing(PySlice(sorted_bookings(mine), start, end),
                          FloorDiv(Len(mine) + per_page - 1, per_page), page)

bookings_outcomes(r) ==
    IF r.method = "OPTIONS"
    THEN Unchanged(Reply(200, "Preflight request"))
    ELSE LET user == current_user(r.identity) IN
         IF user = {}
         THEN Unchanged(Reply(401, "User not authenticated"))
         ELSE LET mine == CallerBookings(Only(user)) IN
              IF mine = <<>>
              THEN Unchanged(Listing(<<>>, 0, 1))
              ELSE Unchanged(paginate(r, mine))

----------------------------------------------------------------------------
\* Profile form (forms/artisan.py 60-78).  Each validator is TRUE when it
\* raises ValidationError for the submitted value.

validate_username(uid, data) ==
    /\ data # users[uid].username
    /\ \E v \in DOMAIN users : users[v].username = data

validate_email_raw(uid, data) ==
    /\ data # users[uid].email
    /\ \E v \in DOMAIN users : users[v].email = data

validate_email(uid, data) ==
    /\ Lower(data) # users[uid].email
    /\ \E v \in DOMAIN users : users[v].email = Lower(data)

\* form.errors: the fields whose validator raised.
form_errors(r) ==
    {f \in {"username"} : validate_username(r.identity, r.username)}
    \cup {f \in {"email"} : validate_email(r.identity, r.email)}

\* The profile route answers 400 "Invalid form data" when the form does not
\* validate and 200 otherwise (tests/test_forms/test_client.py).
profile_response(errors) ==
    IF errors # {}
    THEN [Reply(400, "Invalid form data") EXCEPT !.errors = errors]
    ELSE Reply(200, "")

UsernameInputs == {"u1", "u2", "u3", "u4"}
EmailInputs == {Ec, EC, Ed, ED, Ea, Ez}

ProfileRequests ==
    {[NoReq EXCEPT !.method = "PROFILE", !.identity = u, !.username = n, !.email = e] :
        u \in UserIds, n \in UsernameInputs, e \in EmailInputs}

\* User tables the form can be validated against: usernames and lower-case
\* emails are unique, the roles are those of DefaultUsers.
UserTables ==
    {[u \in UserIds |-> [username |-> n[u], email |-> e[u], role |-> DefaultUsers[u].role]] :
        n \in {f \in [UserIds -> UsernameInputs] :
                  \A a, b \in UserIds : a # b => f[a] # f[b]},
        e \in {f \in [UserIds -> {Ec, Ed, Ea, Ez}] :
                  \A a, b \in UserIds : a # b => f[a] # f[b]}}

----------------------------------------------------------------------------
Idle == req = NoReq

Init ==
    /\ users = DefaultUsers
    /\ booking_rows = <<>>
    /\ now = 0
    /\ outbox = <<>>
    /\ req = NoReq
    /\ resp = NoResp

\* /book_artisan, methods POST, PUT, OPTIONS
book_artisan ==
    /\ Idle
    /\ \E r \in PostRequests \cup PutRequests \cup OptionsRequests :
        /\ req' = r
        /\ \E o \in book_artisan_outcomes(r) :
            /\ booking_rows' = o.booking_rows
            /\ outbox' = o.outbox
            /\ now' = o.now
            /\ resp' = o.resp
    /\ UNCHANGED users

\* /bookings, methods GET, OPTIONS
bookings ==
    /\ Idle
    /\ \E r \in GetRequests \cup OptionsRequests :
        /\ req' = r
        /\ \E o \in bookings_outcomes(r) :
            /\ booking_rows' = o.booking_rows
            /\ outbox' = o.outbox
            /\ now' = o.now
            /\ resp' = o.resp
    /\ UNCHANGED users

\* The wall clock advances between requests.
Tick ==
    /\ Idle
    /\ now < MaxTime
    /\ now' = now + 1
    /\ UNCHANGED <<users, booking_rows, outbox, req, resp>>

\* The response goes back to the caller; the server is idle again.
Deliver ==
    /\ ~Idle
    /\ req' = NoReq
    /\ resp' = NoResp
    /\ UNCHANGED <<users, booking_rows, now, outbox>>

Next == book_artisan \/ bookings \/ Tick \/ Deliver

Spec == Init /\ [][Next]_vars

\* Profile submission by an authenticated user.
profile ==
    \E r \in ProfileRequests :
        /\ Idle
        /\ req' = r
        /\ resp' = profile_response(form_errors(r))
        /\ UNCHANGED <<users, booking_rows, now, outbox>>

InitProfile ==
    /\ users \in UserTables
    /\ booking_rows = <<>>
    /\ now = 0
    /\ outbox = <<>>
    /\ req = NoReq
    /\ resp = NoResp

NextProfile == profile \/ Deliver

SpecProfile == InitProfile /\ [][NextProfile]_vars

----------------------------------------------------------------------------
\* Vocabulary of the properties.

Authenticated(r) == r.identity \in DOMAIN users
RoleOf(r) == users[r.identity].role
Last(s) == s[Len(s)]

\* The caller's Client or Artisan profile owns booking b.
BelongsTo(b, uid) ==
    IF users[uid].role = "Artisan"
    THEN \E a \in Artisans : a.user_id = uid /\ b.artisan_id = a.id
    ELSE \E c \in Clients : c.user_id = uid /\ b.client_id = c.id

\* The client and artisan rows whose email is the lower-cased address.
ResolvedClient(r) == {c \in Clients : r.client_email # {} /\ c.email = Lower(Only(r.client_email))}
ResolvedArtisan(r) == {a \in Artisans : r.artisan_email # {} /\ a.email = Lower(Only(r.artisan_email))}

----------------------------------------------------------------------------
\* The creation requests of C1.
C1_ValidCreation(r) ==
    /\ r.method = "POST" /\ Authenticated(r) /\ RoleOf(r) = "Client"
    /\ r.json
    /\ ResolvedClient(r) # {} /\ ResolvedArtisan(r) # {}
    /\ ~strptime_raises(r.completion_date)
    /\ strptime(r.completion_date) >= now

\* C1: a POST /book_artisan by an authenticated Client-role caller whose
\* client_email and artisan_email (lower-cased) resolve to existing rows and
\* whose completion_date parses and is not earlier than the current time
\* persists exactly one new Booking, with status "Pending" and the ids of the
\* resolved rows, sends exactly one mail, to that artisan's address and with
\* the booking already committed, and is answered 201.
C1_CreationPersistsAndNotifies ==
    [][C1_ValidCreation(req') =>
        /\ resp'.code = 201
        /\ Len(booking_rows') = Len(booking_rows) + 1
        /\ SubSeq(booking_rows', 1, Len(booking_rows)) = booking_rows
        /\ Last(booking_rows').status = "Pending"
        /\ Last(booking_rows').client_id = Only(ResolvedClient(req')).id
        /\ Last(booking_rows').artisan_id = Only(ResolvedArtisan(req')).id
        /\ Len(outbox') = Len(outbox) + 1
        /\ SubSeq(outbox', 1, Len(outbox)) = outbox
        /\ Last(outbox').to = Only(ResolvedArtisan(req')).email
        /\ Last(outbox').stored = Len(booking_rows')]_vars

\* A creation with upper-case addresses has been answered 201.
C1_Witness ==
    /\ req.method = "POST" /\ resp.code = 201
    /\ req.client_email = {EC} /\ req.artisan_email = {EA}
    /\ Len(booking_rows) = 2 /\ Len(outbox) = 2
    /\ Last(booking_rows).status = "Pending"

\* The requests of C2: the verb's role check fails.
C2_WrongRole(r) ==
    /\ Authenticated(r)
    /\ \/ r.method = "POST" /\ RoleOf(r) # "Client"
       \/ r.method = "PUT" /\ RoleOf(r) # "Artisan"

\* C2: for an authenticated caller, a POST by a caller whose role is not
\* Client and a PUT by a caller whose role is not Artisan are answered 403
\* whatever the body is; no booking is created, no status changes and no
\* mail is sent.
C2_RoleGating ==
    [][C2_WrongRole(req') =>
        /\ resp'.code = 403
        /\ booking_rows' = booking_rows
        /\ outbox' = outbox]_vars

\* A client's PUT naming an existing booking has been answered 403.
C2_Witness ==
    /\ req.method = "PUT" /\ Authenticated(req) /\ RoleOf(req) = "Client"
    /\ req.json /\ BookingById(req.booking_id) # {}
    /\ resp.code = 403

\* The creation requests of C3.
C3_PastDate(r) ==
    /\ r.method = "POST" /\ Authenticated(r) /\ RoleOf(r) = "Client"
    /\ r.json
    /\ ~strptime_raises(r.completion_date)
    /\ strptime(r.completion_date) < now

\* C3: a POST /book_artisan by an authenticated Client-role caller whose
\* completion_date parses and is earlier than the current time is answered
\* 400, whether or not the two addresses resolve, persists no booking and
\* sends no mail.
C3_PastDateRejected ==
    [][C3_PastDate(req') =>
        /\ resp'.code = 400
        /\ booking_rows' = booking_rows
        /\ outbox' = outbox]_vars

\* A past-dated creation naming an unknown artisan has been answered 400.
C3_Witness ==
    /\ req.method = "POST" /\ Authenticated(req) /\ RoleOf(req) = "Client"
    /\ req.json /\ ~strptime_raises(req.completion_date)
    /\ strptime(req.completion_date) < now
    /\ ResolvedClient(req) # {} /\ ResolvedArtisan(req) = {}
    /\ resp.code = 400

\* The update requests of C4.
C4_ArtisanUpdate(r) ==
    /\ r.method = "PUT" /\ Authenticated(r) /\ RoleOf(r) = "Artisan"
    /\ r.json

RequestedPage(r) == IF r.page = {} THEN 1 ELSE int(Only(r.page))
RequestedPerPage(r) == IF r.per_page = {} THEN 10 ELSE int(Only(r.per_page))

\* The elements of s at the 0-based positions p with lo <= p < hi.
PositionsSlice(s, lo, hi) ==
    LET Test(p) == lo <= p /\ p < hi
        Count == Cardinality({p \in 0..(Len(s) - 1) : Test(p)})
        First == IF lo < 0 THEN 0 ELSE lo
    IN  [k \in 1..Count |-> s[First + k]]

\* ceil(n / d) for d # 0.
CeilDiv(n, d) == 0 - FloorDiv(0 - n, d)

\* The caller's bookings, in id order.
OwnRows(uid) ==
    LET Mine(b) == BelongsTo(b, uid) IN SelectSeq(booking_rows, Mine)

\* C5: every GET /bookings answered 200, for all integer page and per_page
\* (defaults 1 and 10), returns the slice [(page-1)*per_page, page*per_page)
\* of the caller's bookings sorted by request_date descending, with
\* current_page the requested page and total_pages = ceil(count/per_page).
C5_PageIsSlice ==
    (/\ req.method = "GET" /\ resp.code = 200
     /\ (req.page = {} \/ ~int_raises(Only(req.page)))
     /\ (req.per_page = {} \/ ~int_raises(Only(req.per_page)))
     /\ RequestedPerPage(req) # 0)
    => LET page == RequestedPage(req)
           per_page == RequestedPerPage(req)
           mine == OwnRows(req.identity)
       IN  /\ resp.bookings = PositionsSlice(sorted_bookings(mine),
                                             (page - 1) * per_page, page * per_page)
           /\ resp.current_page = page
           /\ resp.total_pages = CeilDiv(Len(mine), per_page)

\* The answer to request r with its page parameter set to p.
PageOf(r, p) == Only(bookings_outcomes([r EXCEPT !.page = {Digits(p)}])).resp

\* How often booking b appears on the pages 1..total_pages of r.
Occurrences(r, b) ==
    Cardinality({<<p, k>> \in (1..resp.total_pages) \X (1..Len(booking_rows)) :
                    /\ k <= Len(PageOf(r, p).bookings)
                    /\ PageOf(r, p).bookings[k] = b})

C7_Frame ==
    [][/\ Len(booking_rows') >= Len(booking_rows)
       /\ \A i \in 1..Len(booking_rows) :
            /\ booking_rows'[i] = [booking_rows[i] EXCEPT !.status = booking_rows'[i].status]
            /\ booking_rows'[i].status # booking_rows[i].status
                 => /\ req'.method = "PUT" /\ resp'.code = 200
                    /\ Authenticated(req') /\ RoleOf(req') = "Artisan"
                    /\ req'.booking_id = {booking_rows[i].id}
                    /\ Len(booking_rows') = Len(booking_rows)
                    /\ \A j \in 1..Len(booking_rows) :
                          j # i => booking_rows'[j] = booking_rows[j]
       /\ (req'.method = "GET" \/ resp'.code \in 400..499)
            => booking_rows' = booking_rows]_vars

\* An update has changed one of two bookings and left the other Pending.
C7_Witness ==
    /\ req.method = "PUT" /\ resp.code = 200
    /\ Len(booking_rows) = 2
    /\ req.booking_id = {booking_rows[2].id}
    /\ booking_rows[2].status = "whatever"
    /\ booking_rows[1].status = "Pending"

\* A page or per_page that int() rejects.
C8_Unparsable(r) ==
    \/ r.page # {} /\ int_raises(Only(r.page))
    \/ r.per_page # {} /\ int_raises(Only(r.per_page))

\* C8: a GET /bookings by an authenticated caller whose page or per_page
\* does not parse as an integer is answered 400 however many bookings the
\* caller has; a caller with no bookings and parseable parameters gets 200
\* with an empty list and total_pages 0.
C8_BadPaginationRejected ==
    (req.method = "GET" /\ Authenticated(req))
    => /\ C8_Unparsable(req) => resp.code = 400
       /\ (~C8_Unparsable(req) /\ Len(OwnRows(req.identity)) = 0)
            => /\ resp.code = 200
               /\ resp.bookings = <<>>
               /\ resp.total_pages = 0

\* C9: validate_username (validate_email, on the lower-cased address) rejects
\* the submission exactly when the submitted value differs from the caller's
\* current one and some user already holds it; the caller's own unchanged
\* username and email are accepted; a rejected submission is answered 400.
C9_UniquenessValidation ==
    req.method = "PROFILE"
    => LET own == users[req.identity]
           lowered == Lower(req.email)
       IN  /\ "username" \in resp.errors
                <=> /\ req.username # own.username
                    /\ \E v \in UserIds : v # req.identity /\ users[v].username = req.username
           /\ "email" \in resp.errors
                <=> /\ lowered # own.email
                    /\ \E v \in UserIds : v # req.identity /\ users[v].email = lowered
           /\ req.username = own.username => "username" \notin resp.errors
           /\ lowered = own.email => "email" \notin resp.errors
           /\ resp.errors # {} => resp.code = 400

\* Another user's address, submitted in upper case, has been rejected while
\* the caller's own username passed.
C9_Witness ==
    /\ req.method = "PROFILE" /\ resp.code = 400
    /\ req.username = users[req.identity].username
    /\ req.email # Lower(req.email)
    /\ resp.errors = {"email"}

\* C10: every persisted Booking has a completion_date that is not earlier
\* than its own request_date and created_at.
C10_CompletionNotBeforeCreation ==
    \A i \in 1..Len(booking_rows) :
        /\ booking_rows[i].completion_date >= booking_rows[i].request_date
        /\ booking_rows[i].completion_date >= booking_rows[i].created_at

====
